---------------------------- MODULE Spec2Model ----------------------------
(***************************************************************************)
(* A model of semantic-fs: the path containment guard (validatePath), the  *)
(* patch engine (applyFileEdits) and the tool handlers of src/fs.ts that   *)
(* use them.  Texts and paths are strings; a filesystem is a function from *)
(* absolute paths to nodes.                                                *)
(***************************************************************************)
EXTENDS Integers, Sequences, FiniteSets, TLC

VARIABLES
    fsys,                \* the filesystem: absolute path -> node
    allowedDirectories,  \* the allow-list handed to handleTool / validatePath
    request,             \* the call being served (NoRequest before the first)
    response,            \* what the call returned or raised
    fsBefore,            \* the filesystem as it was when the call started
    pc                   \* "ready" before the call, "done" after it

vars == <<fsys, allowedDirectories, request, response, fsBefore, pc>>

(***************************************************************************)
(* Strings                                                                 *)
(***************************************************************************)

\* v bound to the parameter of F: a LET whose value is computed once
Bind(v, F(_)) == F(v)

Min(S) == CHOOSE m \in S : \A n \in S : m <= n

Max0(a, b) == IF a >= b THEN a ELSE b

\* the characters from..to of s (1-based, inclusive), cut to the string
Slice(s, from, to) ==
    LET last == IF to <= Len(s) THEN to ELSE Len(s)
    IN  IF from < 1 \/ from > last THEN "" ELSE SubSeq(s, from, last)

CharAt(s, i) == Slice(s, i, i)

\* String.prototype.startsWith
StartsWith(s, p) == Len(p) <= Len(s) /\ Slice(s, 1, Len(p)) = p

\* String.prototype.indexOf, 1-based; 0 when sub does not occur
IndexOf(s, sub) ==
    LET I == { i \in 1..(Len(s) - Len(sub) + 1) :
                   Slice(s, i, i + Len(sub) - 1) = sub }
    IN  IF I = {} THEN 0 ELSE Min(I)

\* String.prototype.includes
Includes(s, sub) == IndexOf(s, sub) # 0

\* String.prototype.repeat on a single space
RECURSIVE Spaces(_)
Spaces(n) == IF n <= 0 THEN "" ELSE " " \o Spaces(n - 1)

\* String.prototype.split(sep) for a one-character separator
RECURSIVE Split(_, _)
Split(s, sep) ==
    LET i == IndexOf(s, sep)
    IN  IF i = 0 THEN <<s>>
        ELSE <<Slice(s, 1, i - 1)>> \o Split(Slice(s, i + 1, Len(s)), sep)

\* Array.prototype.join(sep)
RECURSIVE Join(_, _)
Join(parts, sep) ==
    IF Len(parts) = 0 THEN ""
    ELSE IF Len(parts) = 1 THEN parts[1]
    ELSE parts[1] \o sep \o Join(Tail(parts), sep)

\* the characters \s and trim() treat as white space, among those modelled
WhiteSpace == {" ", "\t", "\n", "\r"}

\* line.match(/^\s*/)[0]: the leading white space of a line
RECURSIVE LeadingWs(_)
LeadingWs(s) ==
    IF Len(s) > 0 /\ CharAt(s, 1) \in WhiteSpace
    THEN CharAt(s, 1) \o LeadingWs(Slice(s, 2, Len(s)))
    ELSE ""

\* String.prototype.trimStart
TrimStart(s) == Slice(s, Len(LeadingWs(s)) + 1, Len(s))

\* String.prototype.trimEnd
RECURSIVE TrimEnd(_)
TrimEnd(s) ==
    IF Len(s) > 0 /\ CharAt(s, Len(s)) \in WhiteSpace
    THEN TrimEnd(Slice(s, 1, Len(s) - 1))
    ELSE s

\* String.prototype.trim
Trim(s) == TrimEnd(TrimStart(s))

UpperCase == "ABCDEFGHIJKLMNOPQRSTUVWXYZ"
LowerCase == "abcdefghijklmnopqrstuvwxyz"

\* String.prototype.toLowerCase
RECURSIVE ToLowerCase(_)
ToLowerCase(s) ==
    IF Len(s) = 0 THEN ""
    ELSE LET c == CharAt(s, 1)
             i == IndexOf(UpperCase, c)
         IN  (IF i = 0 THEN c ELSE CharAt(LowerCase, i))
                 \o ToLowerCase(Slice(s, 2, Len(s)))

(***************************************************************************)
(* Text helpers of fs.ts                                                   *)
(***************************************************************************)

\* text.replace(/\r\n/g, "\n")
RECURSIVE normalizeLineEndings(_)
normalizeLineEndings(text) ==
    LET i == IndexOf(text, "\r\n")
    IN  IF i = 0 THEN text
        ELSE Slice(text, 1, i - 1) \o "\n"
                 \o normalizeLineEndings(Slice(text, i + 2, Len(text)))

\* GetSubstitution of String.prototype.replace for a string pattern (no
\* capture groups): $$ is a dollar, $& the match, $` the text before it,
\* $' the text after it; every other character, a lone $ included, is itself.
RECURSIVE GetSubstitution(_, _, _, _)
GetSubstitution(matched, before, after, replacement) ==
    IF Len(replacement) = 0 THEN ""
    ELSE LET two  == Slice(replacement, 1, 2)
             rest == Slice(replacement, 3, Len(replacement))
         IN  IF two = "$$" THEN "$" \o GetSubstitution(matched, before, after, rest)
             ELSE IF two = "$&"
                 THEN matched \o GetSubstitution(matched, before, after, rest)
             ELSE IF two = "$`"
                 THEN before \o GetSubstitution(matched, before, after, rest)
             ELSE IF two = "$'"
                 THEN after \o GetSubstitution(matched, before, after, rest)
             ELSE CharAt(replacement, 1)
                      \o GetSubstitution(matched, before, after,
                                         Slice(replacement, 2, Len(replacement)))

\* a replace that rewrites every occurrence of a non-empty pattern
RECURSIVE StringReplaceAll(_, _, _)
StringReplaceAll(str, pattern, replacement) ==
    Bind(IndexOf(str, pattern), LAMBDA i :
        IF i = 0 THEN str
        ELSE Bind(Slice(str, 1, i - 1), LAMBDA before :
             Bind(Slice(str, i + Len(pattern), Len(str)), LAMBDA after :
                 before \o GetSubstitution(pattern, before, after, replacement)
                     \o (IF pattern = "" THEN after
                         ELSE StringReplaceAll(after, pattern, replacement)))))

\* str.replace(pattern, replacement) with a string pattern: the first
\* occurrence only, the replacement expanded by GetSubstitution
StringReplace(str, pattern, replacement) ==
    LET i == IndexOf(str, pattern)
    IN  IF i = 0 THEN str
        ELSE LET before == Slice(str, 1, i - 1)
                 after  == Slice(str, i + Len(pattern), Len(str))
             IN  before \o GetSubstitution(pattern, before, after, replacement)
                     \o after

(***************************************************************************)
(* Paths (node:path, POSIX)                                                *)
(***************************************************************************)

\* os.homedir() and process.cwd() of the server process
HomeDir == "/home"
Cwd     == "/data"

\* the segments of a path with ".", "" and ".." resolved; ".." at the root
\* stays at the root
RECURSIVE NormalizeSegments(_, _)
NormalizeSegments(done, segs) ==
    IF Len(segs) = 0 THEN done
    ELSE LET s == Head(segs)
         IN  IF s = "" \/ s = "." THEN NormalizeSegments(done, Tail(segs))
             ELSE IF s = ".."
                 THEN NormalizeSegments(
                          IF Len(done) = 0 THEN done
                          ELSE SubSeq(done, 1, Len(done) - 1), Tail(segs))
             ELSE NormalizeSegments(Append(done, s), Tail(segs))

FromSegments(segs) == "/" \o Join(segs, "/")

\* path.isAbsolute
IsAbsolute(p) == StartsWith(p, "/")

\* path.resolve(p) and path.resolve(process.cwd(), p)
PathResolve(p) ==
    FromSegments(NormalizeSegments(<<>>,
        Split(IF IsAbsolute(p) THEN p ELSE Cwd \o "/" \o p, "/")))

\* path.normalize of an absolute path: a trailing separator is kept
PathNormalize(p) ==
    LET r == FromSegments(NormalizeSegments(<<>>, Split(p, "/")))
    IN  IF Len(p) > 1 /\ CharAt(p, Len(p)) = "/" /\ r # "/" THEN r \o "/" ELSE r

\* path.dirname of a resolved absolute path
PathDirname(p) ==
    LET segs == NormalizeSegments(<<>>, Split(p, "/"))
    IN  IF Len(segs) = 0 THEN "/"
        ELSE FromSegments(SubSeq(segs, 1, Len(segs) - 1))

\* path.join(a, b) for an absolute a
PathJoin(a, b) == PathNormalize(a \o "/" \o b)

normalizePath(p) == ToLowerCase(PathNormalize(p))

expandHome(filepath) ==
    IF StartsWith(filepath, "~/") \/ filepath = "~"
    THEN PathJoin(HomeDir, Slice(filepath, 2, Len(filepath)))
    ELSE filepath

(***************************************************************************)
(* The filesystem (node:fs/promises and Bun.file / Bun.write)              *)
(***************************************************************************)

\* how many symbolic links one resolution follows before it fails (ELOOP)
MaxSymlinks == 2

Dir          == [kind |-> "dir",  content |-> "", target |-> ""]
File(c)      == [kind |-> "file", content |-> c,  target |-> ""]
Symlink(t)   == [kind |-> "link", content |-> "", target |-> t]

Failure(code) == [ok |-> FALSE, path |-> "", code |-> code]

\* realpath: every component must exist, links (absolute targets) are followed
RECURSIVE RealWalk(_, _, _, _)
RealWalk(fs, cur, segs, fuel) ==
    IF Len(segs) = 0
    THEN [ok |-> TRUE, path |-> IF cur = "" THEN "/" ELSE cur, code |-> ""]
    ELSE LET next == cur \o "/" \o Head(segs)
         IN  IF next \notin DOMAIN fs THEN Failure("ENOENT")
             ELSE IF fs[next].kind = "link"
                 THEN IF fuel = 0 THEN Failure("ELOOP")
                      ELSE RealWalk(fs, "",
                               NormalizeSegments(<<>>, Split(fs[next].target, "/"))
                                   \o Tail(segs),
                               fuel - 1)
             ELSE IF fs[next].kind = "file" /\ Len(segs) > 1
                 THEN Failure("ENOTDIR")
             ELSE RealWalk(fs, next, Tail(segs), fuel)

realpath(fs, p) ==
    RealWalk(fs, "", NormalizeSegments(<<>>, Split(p, "/")), MaxSymlinks)

\* where an open for writing of p lands: the real path when p exists, the
\* real parent plus the last name when only the parent exists, the target of
\* a dangling link
RECURSIVE WriteTarget(_, _, _)
WriteTarget(fs, p, fuel) ==
    Bind(NormalizeSegments(<<>>, Split(p, "/")), LAMBDA segs :
    Bind(realpath(fs, PathDirname(p)), LAMBDA parent :
        IF Len(segs) = 0 THEN Failure("EISDIR")
        ELSE IF ~parent.ok THEN parent
        ELSE IF fs[parent.path].kind # "dir" THEN Failure("ENOTDIR")
        ELSE Bind((IF parent.path = "/" THEN "" ELSE parent.path)
                      \o "/" \o segs[Len(segs)], LAMBDA q :
                 IF q \notin DOMAIN fs THEN [ok |-> TRUE, path |-> q, code |-> ""]
                 ELSE IF fs[q].kind = "dir" THEN Failure("EISDIR")
                 ELSE IF fs[q].kind = "file"
                     THEN [ok |-> TRUE, path |-> q, code |-> ""]
                 ELSE IF fuel = 0 THEN Failure("ELOOP")
                 ELSE WriteTarget(fs, fs[q].target, fuel - 1))))

\* Bun.file(p).text() / .arrayBuffer(): the content, or the error raised
ReadFile(fs, p) ==
    Bind(realpath(fs, p), LAMBDA r :
        IF ~r.ok THEN [ok |-> FALSE, text |-> "", code |-> r.code]
        ELSE IF fs[r.path].kind # "file"
            THEN [ok |-> FALSE, text |-> "", code |-> "EISDIR"]
        ELSE [ok |-> TRUE, text |-> fs[r.path].content, code |-> ""])

\* Bun.write(p, content): the file is created or its content replaced
WriteFile(fs, p, content) ==
    Bind(WriteTarget(fs, p, MaxSymlinks), LAMBDA t :
        IF ~t.ok THEN [ok |-> FALSE, fs |-> fs, code |-> t.code]
        ELSE [ok   |-> TRUE,
              fs   |-> [q \in DOMAIN fs \cup {t.path} |->
                            IF q = t.path THEN File(content) ELSE fs[q]],
              code |-> ""])

\* rm(p) without options: removes a file or the link itself, not a directory
RemoveFile(fs, p) ==
    Bind(NormalizeSegments(<<>>, Split(p, "/")), LAMBDA segs :
    Bind(realpath(fs, PathDirname(p)), LAMBDA parent :
    Bind(IF parent.ok /\ Len(segs) > 0
         THEN (IF parent.path = "/" THEN "" ELSE parent.path)
                  \o "/" \o segs[Len(segs)]
         ELSE "", LAMBDA q :
        IF q = "" \/ q \notin DOMAIN fs
        THEN [ok |-> FALSE, fs |-> fs, code |-> "ENOENT"]
        ELSE IF fs[q].kind = "dir"
            THEN [ok |-> FALSE, fs |-> fs, code |-> "EISDIR"]
        ELSE [ok   |-> TRUE,
              fs   |-> [r \in DOMAIN fs \ {q} |-> fs[r]],
              code |-> ""])))

(***************************************************************************)
(* validatePath                                                            *)
(***************************************************************************)

DeniedOutside == "Access denied - path outside allowed directories"
DeniedSymlink == "Access denied - symlink target outside allowed directories"
DeniedParent  == "Access denied - parent directory outside allowed directories"
ParentMissing == "Parent directory does not exist"

\* allowedDirectories.some((dir) => normalized.startsWith(dir))
IsAllowed(normalized, dirs) ==
    \E k \in 1..Len(dirs) : StartsWith(normalized, dirs[k])

Returned(p, calls) == [ok |-> TRUE,  path |-> p,  error |-> "", fsCalls |-> calls]
Thrown(msg, calls) == [ok |-> FALSE, path |-> "", error |-> msg, fsCalls |-> calls]

\* the inner try of validatePath (the fallback on the parent directory) with
\* its catch, which turns every error raised inside it into ParentMissing
ValidateParent(absolute, dirs, fs, calls) ==
    Bind(PathDirname(absolute), LAMBDA parentDir :
    Bind(realpath(fs, parentDir), LAMBDA realParentPath :
    Bind(IF ~realParentPath.ok
             THEN Thrown(realParentPath.code, Append(calls, parentDir))
         ELSE IF ~IsAllowed(normalizePath(realParentPath.path), dirs)
             THEN Thrown(DeniedParent, Append(calls, parentDir))
         ELSE Returned(absolute, Append(calls, parentDir)), LAMBDA tried :
        IF tried.ok THEN tried
        ELSE Thrown(ParentMissing, Append(calls, parentDir)))))

\* a validatePath that resolves the real path before the coarse check
validatePathResolveFirst(requestedPath, dirs, fs) ==
    Bind(PathResolve(expandHome(requestedPath)), LAMBDA absolute :
    Bind(realpath(fs, absolute), LAMBDA realPath :
        IF ~IsAllowed(normalizePath(absolute), dirs)
        THEN Thrown(DeniedOutside, <<absolute>>)
        ELSE IF realPath.ok /\ IsAllowed(normalizePath(realPath.path), dirs)
            THEN Returned(realPath.path, <<absolute>>)
        ELSE ValidateParent(absolute, dirs, fs, <<absolute>>)))

\* validatePath(requestedPath, allowedDirectories) on the filesystem fs: the
\* path returned or the error raised, and the realpath calls made on the way
validatePath(requestedPath, dirs, fs) ==
    Bind(expandHome(requestedPath), LAMBDA expandedPath :
    Bind(PathResolve(expandedPath), LAMBDA absolute :
    Bind(normalizePath(absolute), LAMBDA normalizedRequested :
        IF ~IsAllowed(normalizedRequested, dirs)
        THEN Thrown(DeniedOutside, <<>>)
        ELSE Bind(realpath(fs, absolute), LAMBDA realPath :
             Bind(IF ~realPath.ok THEN Thrown(realPath.code, <<absolute>>)
                  ELSE IF ~IsAllowed(normalizePath(realPath.path), dirs)
                      THEN Thrown(DeniedSymlink, <<absolute>>)
                  ELSE Returned(realPath.path, <<absolute>>), LAMBDA tried :
                 IF tried.ok THEN tried
                 ELSE ValidateParent(absolute, dirs, fs, <<absolute>>))))))

IsAccessDenied(r) == ~r.ok /\ StartsWith(r.error, "Access denied")
IsNotFound(r)     == ~r.ok /\ r.error = ParentMissing

(***************************************************************************)
(* applyFileEdits                                                          *)
(***************************************************************************)

MatchNotFound == "Could not find exact match for edit"

\* the lowest window of contentLines whose lines equal oldLines after trim();
\* 0 when there is none
FuzzyIndex(contentLines, oldLines) ==
    LET I == { i \in 1..(Len(contentLines) - Len(oldLines) + 1) :
                   \A j \in 1..Len(oldLines) :
                       Trim(oldLines[j]) = Trim(contentLines[i + j - 1]) }
    IN  IF I = {} THEN 0 ELSE Min(I)

\* replacement lines that are re-indented whether or not both sides of a
\* line are indented
ReconcileIndentAlways(originalIndent, oldLines, newLines) ==
    [ j \in 1..Len(newLines) |->
        IF j = 1 THEN originalIndent \o TrimStart(newLines[j])
        ELSE originalIndent
                 \o Spaces(Max0(0, Len(LeadingWs(newLines[j]))
                                     - Len(IF j <= Len(oldLines)
                                           THEN LeadingWs(oldLines[j]) ELSE "")))
                 \o TrimStart(newLines[j]) ]

\* the replacement lines of a fuzzy match (the map over normalizedNew's lines)
ReconcileIndent(originalIndent, oldLines, newLines) ==
    [ j \in 1..Len(newLines) |->
        LET line == newLines[j]
        IN  IF j = 1 THEN originalIndent \o TrimStart(line)
            ELSE LET oldIndent == IF j <= Len(oldLines)
                                  THEN LeadingWs(oldLines[j]) ELSE ""
                     newIndent == LeadingWs(line)
                 IN  IF oldIndent # "" /\ newIndent # ""
                     THEN originalIndent
                              \o Spaces(Max0(0, Len(newIndent) - Len(oldIndent)))
                              \o TrimStart(line)
                     ELSE line ]

\* one pass of the loop body: the document after the edit, or no match
ApplyEdit(modifiedContent, edit) ==
    Bind(normalizeLineEndings(edit.oldText), LAMBDA normalizedOld :
    Bind(normalizeLineEndings(edit.newText), LAMBDA normalizedNew :
        IF Includes(modifiedContent, normalizedOld)
        THEN [matched |-> TRUE, tier |-> "exact",
              doc |-> StringReplace(modifiedContent, normalizedOld, normalizedNew)]
        ELSE Bind(Split(normalizedOld, "\n"), LAMBDA oldLines :
             Bind(Split(modifiedContent, "\n"), LAMBDA contentLines :
             Bind(FuzzyIndex(contentLines, oldLines), LAMBDA i :
                 IF i = 0
                 THEN [matched |-> FALSE, tier |-> "none", doc |-> modifiedContent]
                 ELSE [matched |-> TRUE, tier |-> "fuzzy",
                       doc |-> Join(SubSeq(contentLines, 1, i - 1)
                                    \o ReconcileIndent(LeadingWs(contentLines[i]),
                                           oldLines, Split(normalizedNew, "\n"))
                                    \o SubSeq(contentLines, i + Len(oldLines),
                                              Len(contentLines)), "\n")])))))

\* the for loop over edits, from the document and the tiers matched so far:
\* it stops at the first edit that matches in no tier
RECURSIVE EditLoop(_, _, _)
EditLoop(modifiedContent, edits, tiers) ==
    IF Len(edits) = 0
    THEN [matched |-> TRUE, doc |-> modifiedContent, tiers |-> tiers]
    ELSE Bind(ApplyEdit(modifiedContent, Head(edits)), LAMBDA one :
             IF ~one.matched
             THEN [matched |-> FALSE, doc |-> one.doc,
                   tiers |-> Append(tiers, "none")]
             ELSE EditLoop(one.doc, Tail(edits), Append(tiers, one.tier)))

ApplyEdits(content, edits) == EditLoop(content, edits, <<>>)

EditResult(ok, value, error, fs) ==
    [ok |-> ok, value |-> value, error |-> error, fs |-> fs]

\* a persistence step that writes whatever dryRun says
PersistAlways(fs, filePath, modifiedContent, dryRun) ==
    Bind(WriteFile(fs, filePath, modifiedContent), LAMBDA w :
        IF w.ok THEN EditResult(TRUE, modifiedContent, "", w.fs)
        ELSE EditResult(FALSE, "", w.code, fs))

\* the persistence step: Bun.write unless dryRun
Persist(fs, filePath, modifiedContent, dryRun) ==
    IF dryRun THEN EditResult(TRUE, modifiedContent, "", fs)
    ELSE Bind(WriteFile(fs, filePath, modifiedContent), LAMBDA w :
             IF w.ok THEN EditResult(TRUE, modifiedContent, "", w.fs)
             ELSE EditResult(FALSE, "", w.code, fs))

\* an applyFileEdits that writes the document back as the loop goes, so that
\* a failing edit leaves the edits before it on disk
applyFileEditsWriteThrough(fs, filePath, edits, dryRun) ==
    Bind(ReadFile(fs, filePath), LAMBDA file :
        IF ~file.ok THEN EditResult(FALSE, "", file.code, fs)
        ELSE Bind(ApplyEdits(normalizeLineEndings(file.text), edits), LAMBDA applied :
                 IF ~applied.matched
                 THEN EditResult(FALSE, "", MatchNotFound,
                                 Persist(fs, filePath, applied.doc, dryRun).fs)
                 ELSE Persist(fs, filePath, applied.doc, dryRun)))

\* applyFileEdits(filePath, edits, dryRun) on the filesystem fs: the document
\* returned or the error raised, and the filesystem afterwards
applyFileEdits(fs, filePath, edits, dryRun) ==
    Bind(ReadFile(fs, filePath), LAMBDA file :
        IF ~file.ok THEN EditResult(FALSE, "", file.code, fs)
        ELSE Bind(ApplyEdits(normalizeLineEndings(file.text), edits), LAMBDA applied :
                 IF ~applied.matched
                 THEN EditResult(FALSE, "", MatchNotFound, fs)
                 ELSE Persist(fs, filePath, applied.doc, dryRun)))

(***************************************************************************)
(* handleTool, as called by the CallToolRequest handler, which turns every *)
(* error raised into an isError response                                   *)
(***************************************************************************)

\* createTwoFilesPatch(path, path, original, modified): the library's patch
\* is kept as the two texts it compares; it has a hunk iff they differ
TwoFilesPatch(original, modified) == [original |-> original, modified |-> modified]
NoPatch == TwoFilesPatch("", "")

ToolResult(fs, text, diff) ==
    [fs |-> fs, isError |-> FALSE, text |-> text, diff |-> diff]
ToolError(fs, message) ==
    [fs |-> fs, isError |-> TRUE, text |-> "Error: " \o message, diff |-> NoPatch]

\* case "fs:read_file"
handleReadFile(fs, dirs, args) ==
    Bind(validatePath(args.path, dirs, fs), LAMBDA validPath :
        IF ~validPath.ok THEN ToolError(fs, validPath.error)
        ELSE Bind(ReadFile(fs, validPath.path), LAMBDA content :
                 IF ~content.ok THEN ToolError(fs, content.code)
                 ELSE ToolResult(fs, content.text, NoPatch)))

\* case "fs:write_file"
handleWriteFile(fs, dirs, args) ==
    Bind(validatePath(args.path, dirs, fs), LAMBDA validPath :
        IF ~validPath.ok THEN ToolError(fs, validPath.error)
        ELSE Bind(WriteFile(fs, validPath.path, args.content), LAMBDA w :
                 IF ~w.ok THEN ToolError(fs, w.code)
                 ELSE ToolResult(w.fs, "Successfully wrote to " \o args.path,
                                 NoPatch)))

\* case "fs:edit_file": the patch compares the file as read after
\* applyFileEdits has returned with the document applyFileEdits returned
handleEditFile(fs, dirs, args) ==
    Bind(validatePath(args.path, dirs, fs), LAMBDA validPath :
        IF ~validPath.ok THEN ToolError(fs, validPath.error)
        ELSE Bind(applyFileEdits(fs, validPath.path, args.edits, args.dryRun),
                  LAMBDA result :
                 IF ~result.ok THEN ToolError(result.fs, result.error)
                 ELSE Bind(ReadFile(result.fs, validPath.path), LAMBDA current :
                          IF ~current.ok THEN ToolError(result.fs, current.code)
                          ELSE ToolResult(result.fs, "diff",
                                   TwoFilesPatch(current.text, result.value)))))

\* case "fs:move_file": read the source, write the destination, remove the
\* source
handleMoveFile(fs, dirs, args) ==
    Bind(validatePath(args.source, dirs, fs), LAMBDA validSourcePath :
        IF ~validSourcePath.ok THEN ToolError(fs, validSourcePath.error)
        ELSE Bind(validatePath(args.destination, dirs, fs), LAMBDA validDestPath :
            IF ~validDestPath.ok THEN ToolError(fs, validDestPath.error)
            ELSE Bind(ReadFile(fs, validSourcePath.path), LAMBDA content :
                IF ~content.ok THEN ToolError(fs, content.code)
                ELSE Bind(WriteFile(fs, validDestPath.path, content.text), LAMBDA w :
                    IF ~w.ok THEN ToolError(fs, w.code)
                    ELSE Bind(RemoveFile(w.fs, validSourcePath.path), LAMBDA r :
                        IF ~r.ok THEN ToolError(w.fs, r.code)
                        ELSE ToolResult(r.fs,
                                 "Successfully moved " \o args.source
                                     \o " to " \o args.destination,
                                 NoPatch))))))

(***************************************************************************)
(* Inputs                                                                  *)
(***************************************************************************)

NoRequest  == [op |-> "none"]
NoResponse == [ok |-> FALSE, value |-> "", error |-> "no call yet"]

\* all strings over chars of length n, and of length at most n
RECURSIVE StringsOfLen(_, _)
StringsOfLen(chars, n) ==
    IF n = 0 THEN {""}
    ELSE { c \o s : c \in chars, s \in StringsOfLen(chars, n - 1) }

StringsUpTo(chars, n) == UNION { StringsOfLen(chars, k) : k \in 0..n }

\* all sequences over S of length at most n
RECURSIVE SeqsOfLen(_, _)
SeqsOfLen(S, n) ==
    IF n = 0 THEN {<<>>}
    ELSE { <<x>> \o q : x \in S, q \in SeqsOfLen(S, n - 1) }

SeqsUpTo(S, n) == UNION { SeqsOfLen(S, k) : k \in 0..n }

(***************************************************************************)
(* SpecEdit: one applyFileEdits call, a list of short edits on a short     *)
(* document                                                                *)
(***************************************************************************)

MaxLen   == 2    \* length of the stored document
MaxEdits == 2    \* edits in one call

DocChars  == {"a", " "}
CrLfDocs  == {"a\r\na", " \r\n"}
OldTexts  == {"", "a", " "}
NewTexts  == {"", "a", " ", "$&"}
EditPath  == "/data/foo/x"

EditTree(content) ==
    [p \in {"/data", "/data/foo", EditPath} |->
        IF p = EditPath THEN File(content) ELSE Dir]

EditOps == { [oldText |-> o, newText |-> n] : o \in OldTexts, n \in NewTexts }

EditRequest(edits, dryRun) ==
    [op |-> "applyFileEdits", path |-> EditPath, edits |-> edits, dryRun |-> dryRun]

InitEdit ==
    /\ fsys \in { EditTree(c) : c \in StringsUpTo(DocChars, MaxLen) \cup CrLfDocs }
    /\ allowedDirectories = <<"/data/foo">>
    /\ request \in { EditRequest(e, d) :
                       e \in SeqsUpTo(EditOps, MaxEdits), d \in BOOLEAN }
    /\ response = NoResponse
    /\ fsBefore = fsys
    /\ pc = "ready"

\* what the caller of applyFileEdits gets: the document or the error
Answer(r) == [ok |-> r.ok, value |-> r.value, error |-> r.error]

\* the call of applyFileEdits that request describes
ApplyFileEditsCall ==
    /\ pc = "ready"
    /\ request.op = "applyFileEdits"
    /\ response' = Answer(applyFileEdits(fsys, request.path, request.edits,
                                         request.dryRun))
    /\ fsys' = applyFileEdits(fsys, request.path, request.edits, request.dryRun).fs
    /\ fsBefore' = fsys
    /\ pc' = "done"
    /\ UNCHANGED <<allowedDirectories, request>>

NextEdit == ApplyFileEditsCall

SpecEdit == InitEdit /\ [][NextEdit]_vars

\* the stored document before and after the call
StoredBefore == fsBefore[EditPath].content
StoredAfter  == fsys[EditPath].content

(***************************************************************************)
(* SpecIndent: one applyFileEdits call, a single edit of indented lines    *)
(***************************************************************************)

MaxIndent == 2   \* spaces in front of a line

IndentedLines(words) == { Spaces(n) \o w : n \in 0..MaxIndent, w \in words }

\* the texts of one or two indented lines, joined by eol
IndentedTexts(words, eol) ==
    LET L == IndentedLines(words)
    IN  L \cup { a \o eol \o b : a \in L, b \in L }

ExampleDoc  == "  if (x) {\n    doThing();\n  }"
ExampleEdit == [oldText |-> "  if (x) {\n    doThing();\n  }",
                newText |-> "if (x) {\n  doOther();\n}"]

InitIndent ==
    /\ \/ /\ fsys \in { EditTree(c) : c \in IndentedTexts({"a"}, "\n")
                                           \cup IndentedTexts({"a"}, "\r\n") }
          /\ request \in { EditRequest(<<[oldText |-> o, newText |-> n]>>, TRUE) :
                             o \in IndentedTexts({"a"}, "\n"),
                             n \in IndentedTexts({"a", "b"}, "\n") }
       \/ /\ fsys = EditTree(ExampleDoc)
          /\ request \in { EditRequest(<<ExampleEdit>>, d) : d \in BOOLEAN }
    /\ allowedDirectories = <<"/data/foo">>
    /\ response = NoResponse
    /\ fsBefore = fsys
    /\ pc = "ready"

SpecIndent == InitIndent /\ [][NextEdit]_vars

(***************************************************************************)
(* SpecGuard: one validatePath call                                        *)
(***************************************************************************)

MaxDepth == 2    \* path segments after the prefix of a requested path

LinkPath == "/data/foo/link"

\* a small tree; link is the target of the symbolic link /data/foo/link, or ""
\* for a tree without it
GuardTree(link) ==
    [p \in {"/data", "/data/foo", "/data/foo/x", "/data/foo/y", "/data/foobar",
            "/data/foobar/x", "/etc", "/etc/x", "/home"}
           \cup (IF link = "" THEN {} ELSE {LinkPath}) |->
        IF p = LinkPath THEN Symlink(link)
        ELSE IF p \in {"/data/foo/x", "/data/foobar/x"} THEN File("a b")
        ELSE IF p = "/data/foo/y" THEN File("c")
        ELSE IF p = "/etc/x" THEN File("secret")
        ELSE Dir]

LinkTargets == {"", "/etc", "/etc/x", "/data/foobar", "/data/foo/x",
                "/data/foo/gone", LinkPath}

AllowLists == { <<>>, <<"/data/foo">>, <<"/data">>, <<"/home", "/data/foo">>,
                <<"/etc", "/data/foo">> }

PathPrefixes == {"/data/foo/", "/data/Foo/", "/data/", "/", "", "~/"}
TailSegments == {"foo", "foobar", "link", "x", "new", ".."}

RequestedPaths ==
    { pre \o Join(segs, "/") :
        pre \in PathPrefixes, segs \in SeqsUpTo(TailSegments, MaxDepth) }

InitGuard ==
    /\ fsys \in { GuardTree(t) : t \in LinkTargets }
    /\ allowedDirectories \in AllowLists
    /\ request \in { [op |-> "validatePath", path |-> p] : p \in RequestedPaths }
    /\ response = NoResponse
    /\ fsBefore = fsys
    /\ pc = "ready"

\* the call of validatePath that request describes
ValidatePathCall ==
    /\ pc = "ready"
    /\ request.op = "validatePath"
    /\ response' = validatePath(request.path, allowedDirectories, fsys)
    /\ fsBefore' = fsys
    /\ pc' = "done"
    /\ UNCHANGED <<fsys, allowedDirectories, request>>

NextGuard == ValidatePathCall

SpecGuard == InitGuard /\ [][NextGuard]_vars

(***************************************************************************)
(* SpecTool: one tool request served by handleTool                         *)
(***************************************************************************)

ToolPaths == {"/data/foo/x", "/data/foo/y", "/data/foo/new", LinkPath,
              "/etc/x", "/data/foobar/x"}

\* edits for the file content "a b"
ToolEdits == { [oldText |-> "a", newText |-> "c"], [oldText |-> "b", newText |-> ""],
               [oldText |-> "c", newText |-> "a"], [oldText |-> "zz", newText |-> "a"] }

ToolRequests ==
    { [op |-> "fs:read_file", path |-> p] : p \in ToolPaths }
    \cup { [op |-> "fs:write_file", path |-> p, content |-> c] :
             p \in ToolPaths, c \in {"", "w"} }
    \cup { [op |-> "fs:edit_file", path |-> p, edits |-> e, dryRun |-> d] :
             p \in ToolPaths, e \in SeqsUpTo(ToolEdits, MaxEdits), d \in BOOLEAN }
    \cup { [op |-> "fs:move_file", source |-> a, destination |-> b] :
             a \in ToolPaths, b \in ToolPaths }

InitTool ==
    /\ fsys \in { GuardTree(t) : t \in {"", "/etc/x", "/data/foo/y"} }
    /\ allowedDirectories \in { <<"/data/foo">>, <<"/data">> }
    /\ request \in ToolRequests
    /\ response = NoResponse
    /\ fsBefore = fsys
    /\ pc = "ready"

\* what the client gets: the content of the result, or the error as text
ToolAnswer(r) == [isError |-> r.isError, text |-> r.text, diff |-> r.diff]

\* the request served with the handler h
Serve(h(_, _, _)) ==
    /\ pc = "ready"
    /\ response' = ToolAnswer(h(fsys, allowedDirectories, request))
    /\ fsys' = h(fsys, allowedDirectories, request).fs
    /\ fsBefore' = fsys
    /\ pc' = "done"
    /\ UNCHANGED <<allowedDirectories, request>>

ReadFileTool  == request.op = "fs:read_file"  /\ Serve(handleReadFile)
WriteFileTool == request.op = "fs:write_file" /\ Serve(handleWriteFile)
EditFileTool  == request.op = "fs:edit_file"  /\ Serve(handleEditFile)
MoveFileTool  == request.op = "fs:move_file"  /\ Serve(handleMoveFile)

NextTool == ReadFileTool \/ WriteFileTool \/ EditFileTool \/ MoveFileTool

SpecTool == InitTool /\ [][NextTool]_vars

(***************************************************************************)
(* The allow-list kept in the configuration file (the server part of       *)
(* embeddings.ts)                                                          *)
(***************************************************************************)

CONFIG_DIR  == PathJoin(PathJoin(HomeDir, ".config"), "semantic-fs")
CONFIG_FILE == PathJoin(CONFIG_DIR, "approved.json")

\* JSON.stringify({ allowedDirectories: dirs }, null, 2), without the white
\* space between the tokens
JsonStringify(dirs) ==
    "{\"allowedDirectories\":["
        \o Join([k \in 1..Len(dirs) |-> "\"" \o dirs[k] \o "\""], ",")
        \o "]}"

\* JSON.parse(configData).allowedDirectories for a document JsonStringify
\* wrote: the strings between the brackets
JsonParse(configData) ==
    Bind(Slice(configData, IndexOf(configData, "[") + 1,
               IndexOf(configData, "]") - 1), LAMBDA inner :
        IF inner = "" THEN <<>>
        ELSE [k \in 1..Len(Split(inner, ",")) |->
                 Slice(Split(inner, ",")[k], 2, Len(Split(inner, ",")[k]) - 1)])

\* dirs.map((dir) => fs.normalizePath(path.resolve(fs.expandHome(dir))))
NormalizeDirs(dirs) ==
    [k \in 1..Len(dirs) |-> normalizePath(PathResolve(expandHome(dirs[k])))]

\* [...new Set(list)]: the first occurrence of every entry, in order
RECURSIVE Unique(_, _)
Unique(done, list) ==
    IF Len(list) = 0 THEN done
    ELSE Unique(IF \E k \in 1..Len(done) : done[k] = Head(list)
                THEN done ELSE Append(done, Head(list)),
                Tail(list))

\* the ancestors of an absolute path and the path itself, from the root down
Ancestors(p) ==
    Bind(NormalizeSegments(<<>>, Split(p, "/")), LAMBDA segs :
        { FromSegments(SubSeq(segs, 1, k)) : k \in 1..Len(segs) })

\* mkdir(p, { recursive: true }) in a tree without symbolic links
Mkdir(fs, p) ==
    IF \E q \in Ancestors(p) \cap DOMAIN fs : fs[q].kind # "dir"
    THEN [ok |-> FALSE, fs |-> fs, code |-> "EEXIST"]
    ELSE [ok   |-> TRUE,
          fs   |-> [q \in DOMAIN fs \cup Ancestors(p) |->
                        IF q \in DOMAIN fs THEN fs[q] ELSE Dir],
          code |-> ""]

\* the list addAllowedDirectories writes: the entries it read, then the
\* normalized new ones, without duplicates
MergedDirectories(stored, directories) ==
    Unique(<<>>, stored \o NormalizeDirs(directories))

\* case "fs:list_allowed_directories"
handleListAllowedDirectories(fs, dirs, args) ==
    ToolResult(fs, "Allowed directories:\n" \o Join(dirs, "\n"), NoPatch)

\* the body of the CallToolRequest handler after the allow-list is loaded:
\* handleTool for a name that starts with fs:, Unknown tool for a name without
\* a case
CallTool(fs, dirs, params) ==
    IF params.name = "fs:read_file" THEN handleReadFile(fs, dirs, params)
    ELSE IF params.name = "fs:list_allowed_directories"
        THEN handleListAllowedDirectories(fs, dirs, params)
    ELSE ToolError(fs, "Unknown tool: " \o params.name)

(***************************************************************************)
(* SpecConfig: runServer and tool requests, interleaved at every await on  *)
(* the configuration file.  Process 0 is runServer, the others are calls   *)
(* of the CallToolRequest handler; pc, allowedDirectories and response are *)
(* functions of the process, request holds the command line and the locals *)
(* of every process, fsBefore is the file system before the latest step.   *)
(***************************************************************************)

MaxRequests == 1    \* tool requests received while the server runs

Requests == 1..MaxRequests
Procs    == 0..MaxRequests

\* a tree without the configuration directory
BaseTree ==
    [p \in {"/data", "/data/foo", "/data/foo/x", "/home"} |->
        IF p = "/data/foo/x" THEN File("a b") ELSE Dir]

StoredLists == { <<>>, <<"/data">> }

\* the trees a start can find: no configuration directory, a directory
\* without the file, a file with a list
ConfigTrees ==
    { BaseTree, Mkdir(BaseTree, CONFIG_DIR).fs }
    \cup { WriteFile(Mkdir(BaseTree, CONFIG_DIR).fs, CONFIG_FILE,
                     JsonStringify(l)).fs : l \in StoredLists }

\* process.argv.slice(2)
ArgvLists == { <<>>, <<"/data/foo">>, <<"/data/Foo", "/data/foo">> }

ToolCalls == { [name |-> "fs:list_allowed_directories"],
               [name |-> "fs:read_file", path |-> "/data/foo/x"],
               [name |-> "search"] }

InitConfig ==
    /\ fsys \in ConfigTrees
    /\ allowedDirectories = [p \in Procs |-> <<>>]
    /\ request \in { [argv   |-> a,
                      params |-> [p \in Requests |-> NoRequest],
                      config |-> [p \in Procs |-> <<>>]] : a \in ArgvLists }
    /\ response = [p \in Requests |-> NoResponse]
    /\ fsBefore = fsys
    /\ pc = [p \in Procs |-> IF p = 0 THEN "connect" ELSE "idle"]

\* process.exit(1) in the catch of runServer() ends every process
Running == pc[0] # "exited"

Goto(p, label) == pc' = [pc EXCEPT ![p] = label] /\ UNCHANGED response

\* an error raised in process p: fatal in runServer, an isError result in a
\* request
Raise(p, message) ==
    IF p = 0
    THEN pc' = [pc EXCEPT ![0] = "exited"] /\ UNCHANGED response
    ELSE /\ pc' = [pc EXCEPT ![p] = "done"]
         /\ response' = [response EXCEPT ![p] = ToolAnswer(ToolError(fsys, message))]

\* where a process goes on after the allow-list: runServer logs it, a
\* request calls handleTool
Continue(p) == IF p = 0 THEN "done" ELSE "handleTool"

\* runServer: server.connect(transport)
Connect ==
    /\ pc[0] = "connect"
    /\ Goto(0, "initializeConfig")
    /\ fsBefore' = fsys
    /\ UNCHANGED <<fsys, allowedDirectories, request>>

\* a request reaches the handler of the connected server
Receive(p) ==
    /\ Running
    /\ p \in Requests
    /\ pc[p] = "idle"
    /\ pc[0] # "connect"
    /\ \E c \in ToolCalls : request' = [request EXCEPT !.params[p] = c]
    /\ Goto(p, "initializeConfig")
    /\ fsBefore' = fsys
    /\ UNCHANGED <<fsys, allowedDirectories>>

\* initializeConfig: await readFile(CONFIG_FILE); the inner catch is entered
\* when it fails
InitializeConfigRead(p) ==
    /\ Running
    /\ pc[p] = "initializeConfig"
    /\ Goto(p, IF ReadFile(fsys, CONFIG_FILE).ok THEN "loadAllowedDirectories"
               ELSE "initializeConfig_write")
    /\ fsBefore' = fsys
    /\ UNCHANGED <<fsys, allowedDirectories, request>>

\* initializeConfig, inner catch: await writeFile(CONFIG_FILE, empty list); the
\* outer catch is entered when it fails
InitializeConfigWrite(p) ==
    /\ Running
    /\ pc[p] = "initializeConfig_write"
    /\ fsys' = WriteFile(fsys, CONFIG_FILE, JsonStringify(<<>>)).fs
    /\ Goto(p, IF WriteFile(fsys, CONFIG_FILE, JsonStringify(<<>>)).ok
               THEN "loadAllowedDirectories" ELSE "initializeConfig_mkdir")
    /\ fsBefore' = fsys
    /\ UNCHANGED <<allowedDirectories, request>>

\* initializeConfig, outer catch: await mkdir(CONFIG_DIR, { recursive: true })
InitializeConfigMkdir(p) ==
    /\ Running
    /\ pc[p] = "initializeConfig_mkdir"
    /\ fsys' = Mkdir(fsys, CONFIG_DIR).fs
    /\ IF Mkdir(fsys, CONFIG_DIR).ok THEN Goto(p, "initializeConfig_rewrite")
       ELSE Raise(p, Mkdir(fsys, CONFIG_DIR).code)
    /\ fsBefore' = fsys
    /\ UNCHANGED <<allowedDirectories, request>>

\* initializeConfig, outer catch: await writeFile(CONFIG_FILE, empty list)
InitializeConfigRewrite(p) ==
    /\ Running
    /\ pc[p] = "initializeConfig_rewrite"
    /\ fsys' = WriteFile(fsys, CONFIG_FILE, JsonStringify(<<>>)).fs
    /\ IF WriteFile(fsys, CONFIG_FILE, JsonStringify(<<>>)).ok
       THEN Goto(p, "loadAllowedDirectories")
       ELSE Raise(p, WriteFile(fsys, CONFIG_FILE, JsonStringify(<<>>)).code)
    /\ fsBefore' = fsys
    /\ UNCHANGED <<allowedDirectories, request>>

\* loadAllowedDirectories after initializeConfig: await readFile, JSON.parse,
\* map; then the test of process.argv.length in the caller
LoadAllowedDirectories(p) ==
    /\ Running
    /\ pc[p] = "loadAllowedDirectories"
    /\ IF ReadFile(fsys, CONFIG_FILE).ok
       THEN /\ allowedDirectories' =
                   [allowedDirectories EXCEPT ![p] =
                       NormalizeDirs(JsonParse(ReadFile(fsys, CONFIG_FILE).text))]
            /\ Goto(p, IF Len(request.argv) > 0 THEN "addAllowedDirectories"
                       ELSE Continue(p))
       ELSE /\ Raise(p, ReadFile(fsys, CONFIG_FILE).code)
            /\ UNCHANGED allowedDirectories
    /\ fsBefore' = fsys
    /\ UNCHANGED <<fsys, request>>

\* addAllowedDirectories: await readFile, JSON.parse into the local config
AddAllowedDirectoriesRead(p) ==
    /\ Running
    /\ pc[p] = "addAllowedDirectories"
    /\ IF ReadFile(fsys, CONFIG_FILE).ok
       THEN /\ request' = [request EXCEPT !.config[p] =
                              JsonParse(ReadFile(fsys, CONFIG_FILE).text)]
            /\ Goto(p, "addAllowedDirectories_write")
       ELSE /\ Raise(p, ReadFile(fsys, CONFIG_FILE).code)
            /\ UNCHANGED request
    /\ fsBefore' = fsys
    /\ UNCHANGED <<fsys, allowedDirectories>>

\* addAllowedDirectories: the merged list, await writeFile
AddAllowedDirectoriesWrite(p) ==
    /\ Running
    /\ pc[p] = "addAllowedDirectories_write"
    /\ fsys' = WriteFile(fsys, CONFIG_FILE,
                   JsonStringify(MergedDirectories(request.config[p],
                                                   request.argv))).fs
    /\ IF WriteFile(fsys, CONFIG_FILE,
              JsonStringify(MergedDirectories(request.config[p], request.argv))).ok
       THEN Goto(p, Continue(p))
       ELSE Raise(p, "writeFile failed")
    /\ fsBefore' = fsys
    /\ UNCHANGED <<allowedDirectories, request>>

\* the request handler calls handleTool with the list it loaded and returns
\* the result, or the error as an isError result
HandleTool(p) ==
    /\ Running
    /\ p \in Requests
    /\ pc[p] = "handleTool"
    /\ response' = [response EXCEPT ![p] =
                       ToolAnswer(CallTool(fsys, allowedDirectories[p],
                                           request.params[p]))]
    /\ fsys' = CallTool(fsys, allowedDirectories[p], request.params[p]).fs
    /\ pc' = [pc EXCEPT ![p] = "done"]
    /\ fsBefore' = fsys
    /\ UNCHANGED <<allowedDirectories, request>>

NextConfig ==
    \/ Connect
    \/ \E p \in Procs :
          \/ Receive(p)
          \/ InitializeConfigRead(p)
          \/ InitializeConfigWrite(p)
          \/ InitializeConfigMkdir(p)
          \/ InitializeConfigRewrite(p)
          \/ LoadAllowedDirectories(p)
          \/ AddAllowedDirectoriesRead(p)
          \/ AddAllowedDirectoriesWrite(p)
          \/ HandleTool(p)

SpecConfig == InitConfig /\ [][NextConfig]_vars

(***************************************************************************)
(* Claims about validatePath (SpecGuard)                                   *)
(***************************************************************************)

SegmentsOf(p) == NormalizeSegments(<<>>, Split(p, "/"))

\* p is root or a descendant of root, segment by segment
ContainedIn(p, root) ==
    LET a == SegmentsOf(root)
        b == SegmentsOf(p)
    IN  Len(a) <= Len(b) /\ SubSeq(b, 1, Len(a)) = a

ContainedInSome(p, dirs) == \E k \in 1..Len(dirs) : ContainedIn(p, dirs[k])

Validated == pc = "done" /\ request.op = "validatePath"

\* the absolute form of the requested path (steps 1 and 2 of the guard)
RequestedAbsolute == PathResolve(expandHome(request.path))

PassesCoarseCheck == IsAllowed(normalizePath(RequestedAbsolute), allowedDirectories)

\* C1: every path validatePath returns is contained, segment by segment, in
\* an allowed root; with the single root /data/foo a request for
\* /data/foobar/x is rejected.
C1_ReturnedPathContained ==
    Validated =>
        /\ response.ok =>
               ContainedInSome(normalizePath(response.path), allowedDirectories)
        /\ (allowedDirectories = <<"/data/foo">> /\ request.path = "/data/foobar/x")
               => ~response.ok

\* C2: a path that passes the coarse check and exists, but whose real path is
\* outside every allowed root, is refused with an access-denied error.
C2_SymlinkEscapeDenied ==
    Validated =>
        LET real == realpath(fsys, RequestedAbsolute)
        IN  ( /\ PassesCoarseCheck
              /\ real.ok
              /\ ~IsAllowed(normalizePath(real.path), allowedDirectories) )
                => IsAccessDenied(response)

\* C3: a path whose normalized absolute form starts with no allowed root is
\* refused with access denied, and no realpath call was made for it.
C3_DeniedBeforeFilesystemAccess ==
    (Validated /\ ~PassesCoarseCheck) =>
        IsAccessDenied(response) /\ response.fsCalls = <<>>

\* a refused request that climbs out of the only root to a directory that
\* exists, so a realpath call would have answered
C3_Witness ==
    /\ Validated
    /\ ~PassesCoarseCheck
    /\ request.path = "/data/foo/.."
    /\ IsAccessDenied(response)
    /\ response.fsCalls = <<>>
    /\ realpath(fsys, RequestedAbsolute).ok
    /\ allowedDirectories = <<"/data/foo">>

\* C4: for a path that does not exist, a parent that cannot be resolved gives
\* NotFound, a parent that resolves outside every root gives AccessDenied,
\* and a contained parent gives the absolute path.
C4_ParentFallbackClassified ==
    Validated =>
        LET real   == realpath(fsys, RequestedAbsolute)
            parent == realpath(fsys, PathDirname(RequestedAbsolute))
        IN  (PassesCoarseCheck /\ ~real.ok /\ real.code = "ENOENT") =>
                IF ~parent.ok THEN IsNotFound(response)
                ELSE IF ~IsAllowed(normalizePath(parent.path), allowedDirectories)
                    THEN IsAccessDenied(response)
                ELSE response.ok /\ response.path = RequestedAbsolute

(***************************************************************************)
(* Claims about applyFileEdits (SpecEdit)                                  *)
(***************************************************************************)

Edited == pc = "done" /\ request.op = "applyFileEdits"

\* the document the edits are applied to
EditedContent == normalizeLineEndings(StoredBefore)

\* C5: if an edit of the list matches in neither tier, the call raises the
\* match-not-found error and the stored file is what it was before the call.
C5_FailedEditLeavesFile ==
    (Edited /\ ~ApplyEdits(EditedContent, request.edits).matched) =>
        /\ ~response.ok
        /\ response.error = MatchNotFound
        /\ fsys = fsBefore

\* a call that is to write, whose first edit changed the document in memory
\* and whose second edit matched nothing
C5_Witness ==
    /\ Edited
    /\ ~request.dryRun
    /\ Len(request.edits) = 2
    /\ ApplyEdit(EditedContent, request.edits[1]).matched
    /\ ApplyEdit(EditedContent, request.edits[1]).doc # EditedContent
    /\ response.error = MatchNotFound

\* C6: a dry run leaves the stored file unchanged and returns what the same
\* call without dryRun returns; without dryRun the stored file becomes the
\* returned document, in full.
C6_DryRunAndPersistence ==
    Edited =>
        /\ request.dryRun => fsys = fsBefore
        /\ response = Answer(applyFileEdits(fsBefore, request.path, request.edits,
                                            ~request.dryRun))
        /\ response.ok => response.value = ApplyEdits(EditedContent, request.edits).doc
        /\ (~request.dryRun /\ response.ok) =>
               fsys = [fsBefore EXCEPT ![EditPath] = File(response.value)]

\* a dry run whose edits change the document, and so differ from the file
C6_Witness ==
    /\ Edited
    /\ request.dryRun
    /\ response.ok
    /\ Len(request.edits) = 2
    /\ response.value # StoredBefore
    /\ StoredAfter = StoredBefore

\* the inverse of an edit list: old and new swapped, in reverse order
InverseEdits(edits) ==
    [ k \in 1..Len(edits) |->
        [oldText |-> edits[Len(edits) + 1 - k].newText,
         newText |-> edits[Len(edits) + 1 - k].oldText] ]

AllExact(content, edits) ==
    LET a == ApplyEdits(content, edits)
    IN  a.matched /\ \A k \in 1..Len(a.tiers) : a.tiers[k] = "exact"

\* the document after the first k edits
DocAfter(content, edits, k) == ApplyEdits(content, SubSeq(edits, 1, k)).doc

\* a text with one of the patterns String.prototype.replace expands
HasDollarPattern(t) ==
    \E pat \in {"$$", "$&", "$`", "$'"} : Includes(t, pat)

\* the k-th edit can be undone by its inverse: neither text has a replacement
\* pattern, and the first occurrence of newText in the document after the
\* edit is the one the edit wrote
Undoable(content, edits, k) ==
    LET old == normalizeLineEndings(edits[k].oldText)
        new == normalizeLineEndings(edits[k].newText)
    IN  /\ ~HasDollarPattern(old)
        /\ ~HasDollarPattern(new)
        /\ IndexOf(DocAfter(content, edits, k), new)
               = IndexOf(DocAfter(content, edits, k - 1), old)

RoundTrips ==
    LET back == ApplyEdits(response.value, InverseEdits(request.edits))
    IN  back.matched /\ back.doc = EditedContent

\* C7 as stated: whenever all edits match in the exact tier, applying the
\* inverse edits to the result gives back the normalized original.
C7_RoundTripAsStated ==
    (Edited /\ response.ok /\ AllExact(EditedContent, request.edits)) => RoundTrips

\* C7, amended: the round trip holds when, in addition, every edit is
\* undoable in the sense of Undoable.
C7_RoundTripWhenUndoable ==
    ( /\ Edited
      /\ response.ok
      /\ AllExact(EditedContent, request.edits)
      /\ \A k \in 1..Len(request.edits) :
             Undoable(EditedContent, request.edits, k) ) => RoundTrips

\* two undoable exact edits that change the document
C7_Witness ==
    /\ Edited
    /\ response.ok
    /\ Len(request.edits) = 2
    /\ AllExact(EditedContent, request.edits)
    /\ \A k \in 1..2 : Undoable(EditedContent, request.edits, k)
    /\ DocAfter(EditedContent, request.edits, 1) # EditedContent
    /\ response.value # DocAfter(EditedContent, request.edits, 1)
    /\ RoundTrips

\* the document doc with the first occurrence of old replaced by new, written
\* character for character
LiteralReplace(doc, old, new) ==
    Slice(doc, 1, IndexOf(doc, old) - 1)
        \o new
        \o Slice(doc, IndexOf(doc, old) + Len(old), Len(doc))

\* C11: whenever the normalized oldText of an edit occurs verbatim in the
\* current document, the document after that edit is the text before the
\* first occurrence, then the normalized newText character for character,
\* then the text after that occurrence, whatever newText contains.
C11_ExactTierWritesNewTextVerbatim ==
    (Edited /\ response.ok) =>
        \A k \in 1..Len(request.edits) :
            LET doc == DocAfter(EditedContent, request.edits, k - 1)
                old == normalizeLineEndings(request.edits[k].oldText)
                new == normalizeLineEndings(request.edits[k].newText)
            IN  Includes(doc, old) =>
                    DocAfter(EditedContent, request.edits, k)
                        = LiteralReplace(doc, old, new)

(***************************************************************************)
(* Claims about indentation reconciliation (SpecIndent)                    *)
(***************************************************************************)

TheEdit  == request.edits[1]
OldLines == Split(normalizeLineEndings(TheEdit.oldText), "\n")
NewLines == Split(normalizeLineEndings(TheEdit.newText), "\n")
DocLines == Split(EditedContent, "\n")

\* oldText occurs verbatim in the document
OccursVerbatim == Includes(EditedContent, normalizeLineEndings(TheEdit.oldText))

\* the lowest line of the document at which the lines of oldText match after
\* trimming; 0 when there is none
MatchedAt ==
    LET W == { i \in 1..(Len(DocLines) - Len(OldLines) + 1) :
                   \A j \in 1..Len(OldLines) :
                       Trim(OldLines[j]) = Trim(DocLines[i + j - 1]) }
    IN  IF W = {} THEN 0 ELSE Min(W)

IndentOf(line) == Len(LeadingWs(line))
OldIndentOf(j) == IF j <= Len(OldLines) THEN IndentOf(OldLines[j]) ELSE 0

\* line j of the replacement as the claim describes it
ShiftedLine(j) ==
    LeadingWs(DocLines[MatchedAt])
        \o (IF j = 1 THEN ""
            ELSE Spaces(Max0(0, IndentOf(NewLines[j]) - OldIndentOf(j))))
        \o TrimStart(NewLines[j])

\* the document with the matched lines replaced by lines
WithReplacement(lines) ==
    Join(SubSeq(DocLines, 1, MatchedAt - 1) \o lines
             \o SubSeq(DocLines, MatchedAt + Len(OldLines), Len(DocLines)), "\n")

ExampleAsClaimed == "  if (x) {\n  doOther();\n  }"
ExampleAsIs      == "if (x) {\n  doOther();\n}"

IsExample == StoredBefore = ExampleDoc /\ request.edits = <<ExampleEdit>>

Served(op) == pc = "done" /\ request.op = op

\* whether a path of the request passes validatePath, and where it leads
ValidBefore(p) == validatePath(p, allowedDirectories, fsBefore)

\* C9: fs:move_file fails when the destination exists: the handler returns
\* an error, the destination is not overwritten and the source not removed.
C9_MoveRefusesExistingDestination ==
    ( /\ Served("fs:move_file")
      /\ ValidBefore(request.source).ok
      /\ ValidBefore(request.destination).ok
      /\ realpath(fsBefore, ValidBefore(request.destination).path).ok ) =>
        response.isError /\ fsys = fsBefore

\* C10: the patch fs:edit_file returns has the file as it was before the
\* edits on its original side and the fully applied document on its modified
\* side, with dryRun and without; a call that changes the file returns a
\* non-empty patch.
C10_DiffShowsChangesMade ==
    (Served("fs:edit_file") /\ ~response.isError) =>
        LET before == ReadFile(fsBefore, ValidBefore(request.path).path).text
        IN  /\ response.diff.original = before
            /\ response.diff.modified
                   = ApplyEdits(normalizeLineEndings(before), request.edits).doc
            /\ (~request.dryRun /\ fsys # fsBefore) =>
                   response.diff.original # response.diff.modified

(***************************************************************************)
(* Claims about the stored allow-list (SpecConfig)                         *)
(***************************************************************************)

\* the entries of allowedDirectories in the configuration file of fs; none
\* when there is no file
StoredDirectories(fs) ==
    IF ReadFile(fs, CONFIG_FILE).ok
    THEN { JsonParse(ReadFile(fs, CONFIG_FILE).text)[k] :
               k \in 1..Len(JsonParse(ReadFile(fs, CONFIG_FILE).text)) }
    ELSE {}

\* C12: the stored allow-list only grows: every directory stored before a
\* step of runServer or of a request is stored after it, in every
\* interleaving; so an entry present at some point is present at every
\* later point.
C12_StoredAllowListOnlyGrows ==
    StoredDirectories(fsBefore) \subseteq StoredDirectories(fsys)

=============================================================================
